---- MODULE Spec2Model ----
(***************************************************************************)
(* lhscript front end: Scanner (source text -> positioned tokens), Parser  *)
(* (tokens -> Expression tree) and AstPrinter (tree -> prefix text).       *)
(*                                                                         *)
(* Source text is a sequence of one-character strings.  A Rust             *)
(* Result<T, E> is a record with an err field ("none" for Ok).  The three  *)
(* stages are pure functions of their input; the state machine applies     *)
(* them one after the other to an input drawn by Init.                     *)
(***************************************************************************)
EXTENDS Integers, Sequences, FiniteSets

VARIABLES code, pc, scan, parse, print

vars == <<code, pc, scan, parse, print>>

(***************************************************************************)
(* Bounds of the checked input space.                                      *)
(***************************************************************************)
\* longest source text enumerated over Chars
MaxLen == 3
\* longest token sequence (before Eof) enumerated over TokenKinds
MaxTokens == 4
\* most binary operators in an enumerated operand/operator chain
MaxOps == 3

(***************************************************************************)
(* Characters.  The classes are Rust's char predicates restricted to       *)
(* ASCII; no input alphabet below holds a non-ASCII character.             *)
(***************************************************************************)
NoChar == "NONE"

Digits == {"0", "1", "2", "3", "4", "5", "6", "7", "8", "9"}

Letters ==
    { "a", "b", "c", "d", "e", "f", "g", "h", "i", "j", "k", "l", "m",
      "n", "o", "p", "q", "r", "s", "t", "u", "v", "w", "x", "y", "z",
      "A", "B", "C", "D", "E", "F", "G", "H", "I", "J", "K", "L", "M",
      "N", "O", "P", "Q", "R", "S", "T", "U", "V", "W", "X", "Y", "Z" }

is_whitespace(c) == c \in {" ", "\t", "\r", "\n", "\f"}

is_alphabetic(c) == c \in Letters

is_numeric(c) == c \in Digits

is_alphanumeric(c) == is_alphabetic(c) \/ is_numeric(c)

(***************************************************************************)
(* Tokens.  Every token is a record of the same shape: the variant, the    *)
(* text payload of Identifier/String and the value of Number.  An f64 that *)
(* a short decimal literal denotes is kept exactly, as m / 10^k with no    *)
(* trailing fractional zero.                                               *)
(***************************************************************************)
NoNum == [m |-> 0, k |-> 0]

Token(type) == [type |-> type, text |-> <<>>, num |-> NoNum]

\* Option<Token>::None
NoToken == Token("None")

Identifier(text) == [type |-> "Identifier", text |-> text, num |-> NoNum]

String(text) == [type |-> "String", text |-> text, num |-> NoNum]

Number(num) == [type |-> "Number", text |-> <<>>, num |-> num]

TokenMetadata(token, position) == [token |-> token, position |-> position]

Position(line, column) == [line |-> line, column |-> column]

RECURSIVE Pow10(_)
Pow10(n) == IF n = 0 THEN 1 ELSE 10 * Pow10(n - 1)

DigitValue(c) ==
    CASE c = "0" -> 0 [] c = "1" -> 1 [] c = "2" -> 2 [] c = "3" -> 3
      [] c = "4" -> 4 [] c = "5" -> 5 [] c = "6" -> 6 [] c = "7" -> 7
      [] c = "8" -> 8 [] c = "9" -> 9

DigitChar(d) == <<"0", "1", "2", "3", "4", "5", "6", "7", "8", "9">>[d + 1]

RECURSIVE Normalize(_)
Normalize(num) ==
    IF num.k > 0 /\ num.m % 10 = 0
    THEN Normalize([m |-> num.m \div 10, k |-> num.k - 1])
    ELSE num

RECURSIVE DecimalValue(_, _, _, _)
\* reads text[i..]: acc is the digits so far as an integer, k the number of
\* fractional digits so far, or -1 before the '.'
DecimalValue(text, i, acc, k) ==
    IF i > Len(text) THEN Normalize([m |-> acc, k |-> IF k < 0 THEN 0 ELSE k])
    ELSE IF text[i] = "." THEN DecimalValue(text, i + 1, acc, 0)
    ELSE DecimalValue(text, i + 1, 10 * acc + DigitValue(text[i]),
                      IF k < 0 THEN k ELSE k + 1)

\* str::parse::<f64> on the texts scan_number_literal can build from the
\* input alphabets: a digit first, then any characters.  Such a text parses
\* iff it is digits with at most one '.'; exponent forms ("1e5") need an
\* 'e', which the enumerated alphabets leave out.
parse_f64(text) ==
    LET dots == {i \in 1..Len(text) : text[i] = "."}
        ok == /\ \A i \in 1..Len(text) : text[i] \in Digits \cup {"."}
              /\ Cardinality(dots) <= 1
              /\ \E i \in 1..Len(text) : text[i] \in Digits
    IN IF ok THEN [ok |-> TRUE, num |-> DecimalValue(text, 1, 0, -1)]
       ELSE [ok |-> FALSE, num |-> NoNum]

RECURSIVE NatText(_)
NatText(n) ==
    IF n < 10 THEN <<DigitChar(n)>>
    ELSE Append(NatText(n \div 10), DigitChar(n % 10))

RECURSIVE FracText(_, _)
\* the k-digit, zero-padded decimal text of n
FracText(n, k) ==
    IF k = 0 THEN <<>>
    ELSE Append(FracText(n \div 10, k - 1), DigitChar(n % 10))

\* f64::to_string of m / 10^k: shortest decimal, no exponent, no ".0"
f64_to_string(num) ==
    IF num.k = 0 THEN NatText(num.m)
    ELSE NatText(num.m \div Pow10(num.k)) \o <<".">>
         \o FracText(num.m % Pow10(num.k), num.k)

(***************************************************************************)
(* Scanner.  s is the mutable part of the struct: [current, position].     *)
(***************************************************************************)
\* Scanner::new
new(src) == [current |-> 0, position |-> Position(0, 0)]

reset(s) == [current |-> 0, position |-> Position(1, 0)]

advance(s) ==
    [current |-> s.current + 1,
     position |-> Position(s.position.line, s.position.column + 1)]

newline(s) ==
    [current |-> s.current, position |-> Position(s.position.line + 1, 0)]

\* Vec::get on the character vector, as Option<char>
get(src, i) == IF i < Len(src) THEN src[i + 1] ELSE NoChar

\* Iterator::next: the (curr, next) window and the scanner after the call
next(src, s) ==
    IF s.current < Len(src)
    THEN [some |-> TRUE, curr |-> src[s.current + 1],
          next |-> get(src, s.current + 1), s |-> advance(s)]
    ELSE [some |-> FALSE, curr |-> NoChar, next |-> NoChar, s |-> s]

RECURSIVE scan_line_comment(_, _)
scan_line_comment(src, s) ==
    LET n == next(src, s)
    IN IF ~n.some THEN s
       ELSE IF n.next = "\n" THEN n.s
       ELSE scan_line_comment(src, n.s)

RECURSIVE scan_multiline_comment(_, _)
scan_multiline_comment(src, s) ==
    LET n == next(src, s)
    IN IF ~n.some THEN [err |-> "none", s |-> s]
       ELSE IF n.curr = "\n" THEN scan_multiline_comment(src, newline(n.s))
       ELSE IF n.curr = "*" /\ n.next = "/"
            THEN [err |-> "none", s |-> advance(n.s)]
       ELSE IF n.next = NoChar
            THEN [err |-> "UnterminatedMultilineComment", s |-> n.s]
       ELSE scan_multiline_comment(src, n.s)

RECURSIVE number_loop(_, _, _)
\* the for loop of scan_number_literal: the text gathered and the scanner
number_loop(src, s, number) ==
    LET n == next(src, s)
    IN IF ~n.some THEN [text |-> number, s |-> s]
       ELSE IF ~(n.next # NoChar /\ (is_numeric(n.next) \/ n.next = "."))
            THEN [text |-> Append(number, n.curr), s |-> n.s]
       ELSE number_loop(src, n.s, Append(number, n.curr))

scan_number_literal(src, s, initial) ==
    LET r == number_loop(src, s, <<initial>>)
        v == parse_f64(r.text)
    IN IF v.ok
       THEN [err |-> "none", token |-> Number(v.num), s |-> r.s]
       ELSE [err |-> "NumberLiteralParsingError", token |-> NoToken,
             s |-> r.s]

RECURSIVE string_loop(_, _, _)
string_loop(src, s, string) ==
    LET n == next(src, s)
    IN IF ~n.some THEN [text |-> string, s |-> s]
       ELSE IF n.next = "\""
            THEN [text |-> Append(string, n.curr), s |-> advance(n.s)]
       ELSE string_loop(src, n.s, Append(string, n.curr))

scan_string_literal(src, s) ==
    LET r == string_loop(src, s, <<>>)
    IN [err |-> "none", token |-> String(r.text), s |-> r.s]

RECURSIVE identifier_loop(_, _, _)
identifier_loop(src, s, identifier) ==
    LET n == next(src, s)
    IN IF ~n.some THEN [text |-> identifier, s |-> s]
       ELSE IF ~(n.next # NoChar /\ is_alphanumeric(n.next))
            THEN [text |-> Append(identifier, n.curr), s |-> n.s]
       ELSE identifier_loop(src, n.s, Append(identifier, n.curr))

\* the list of reserved keywords
Keywords ==
    { <<<<"c", "l", "a", "s", "s">>, "Class">>,
      <<<<"e", "l", "s", "e">>, "Else">>,
      <<<<"f", "a", "l", "s", "e">>, "False">>,
      <<<<"f", "n">>, "Fn">>,
      <<<<"f", "o", "r">>, "For">>,
      <<<<"i", "f">>, "If">>,
      <<<<"n", "u", "l", "l">>, "Null">>,
      <<<<"p", "r", "i", "n", "t">>, "Print">>,
      <<<<"r", "e", "t", "u", "r", "n">>, "Return">>,
      <<<<"s", "u", "p", "e", "r">>, "Super">>,
      <<<<"t", "h", "i", "s">>, "This">>,
      <<<<"t", "r", "u", "e">>, "True">>,
      <<<<"l", "e", "t">>, "Let">>,
      <<<<"w", "h", "i", "l", "e">>, "While">> }

scan_keyword_or_identifier(src, s, initial) ==
    LET r == identifier_loop(src, s, <<initial>>)
        kw == {k \in Keywords : k[1] = r.text}
    IN [err |-> "none",
        token |-> IF kw # {} THEN Token((CHOOSE k \in kw : TRUE)[2])
                  ELSE Identifier(r.text),
        s |-> r.s]

SingleCharacterTokens ==
    { <<"(", "LeftParenthesis">>, <<")", "RightParenthesis">>,
      <<"{", "LeftBrace">>, <<"}", "RightBrace">>, <<",", "Comma">>,
      <<".", "Dot">>, <<"-", "Minus">>, <<"+", "Plus">>, <<":", "Colon">>,
      <<";", "Semicolon">>, <<"/", "Slash">>, <<"*", "Star">>,
      <<"?", "Question">> }

TwoCharacterTokens ==
    { <<"!", "=", "BangEqual">>, <<"=", "=", "EqualEqual">>,
      <<">", "=", "GreaterEqual">>, <<"<", "=", "LessEqual">>,
      <<"&", "&", "And">>, <<"|", "|", "Or">> }

OneCharacterTokens ==
    { <<"!", "Bang">>, <<"=", "Equal">>, <<">", "Greater">>,
      <<"<", "Less">> }

\* one arm of the match in Scanner::tokens, for the window n: the error, the
\* token (NoToken for None) and the scanner after the arm
scan_token(src, n) ==
    LET curr == n.curr
        nxt == n.next
        s == n.s
        none(t) == [err |-> "none", token |-> NoToken, s |-> t]
        some(type, t) == [err |-> "none", token |-> Token(type), s |-> t]
        single == {p \in SingleCharacterTokens : p[1] = curr}
        two == {p \in TwoCharacterTokens : p[1] = curr /\ p[2] = nxt}
        one == {p \in OneCharacterTokens : p[1] = curr}
    IN IF curr = "\n" THEN none(newline(s))
       ELSE IF is_whitespace(curr) THEN none(s)
       ELSE IF curr = "/" /\ nxt = "/" THEN none(scan_line_comment(src, s))
       ELSE IF curr = "/" /\ nxt = "*"
            THEN LET r == scan_multiline_comment(src, s)
                 IN [err |-> r.err, token |-> NoToken, s |-> r.s]
       ELSE IF single # {} THEN some((CHOOSE p \in single : TRUE)[2], s)
       ELSE IF two # {} THEN some((CHOOSE p \in two : TRUE)[3], advance(s))
       ELSE IF one # {} THEN some((CHOOSE p \in one : TRUE)[2], s)
       ELSE IF is_alphabetic(curr) THEN scan_keyword_or_identifier(src, s, curr)
       ELSE IF is_numeric(curr) THEN scan_number_literal(src, s, curr)
       ELSE IF curr = "\"" THEN scan_string_literal(src, s)
       ELSE [err |-> "UnexpectedToken", token |-> NoToken, s |-> s]

\* the position a ScannerError carries: the token's start for the errors
\* raised with the saved position, the scanner's own position for the one
\* scan_multiline_comment raises
error_position(err, position, s) ==
    IF err = "UnterminatedMultilineComment" THEN s.position ELSE position

ScanError(err, position) ==
    [err |-> err, position |-> position, tokens |-> <<>>, spans |-> <<>>]

RECURSIVE tokens_loop(_, _, _, _)
\* the while loop of Scanner::tokens.  spans[i] records where in src the
\* i-th token began and where the scanner stood after it (0-based indices).
tokens_loop(src, s, toks, spans) ==
    LET n == next(src, s)
        position == n.s.position
        r == scan_token(src, n)
    IN IF ~n.some
       THEN [err |-> "none", s |-> s, tokens |-> toks, spans |-> spans]
       ELSE IF r.err # "none"
            THEN [err |-> r.err, s |-> r.s,
                  position |-> error_position(r.err, position, r.s),
                  tokens |-> <<>>, spans |-> <<>>]
       ELSE IF r.token = NoToken THEN tokens_loop(src, r.s, toks, spans)
       ELSE tokens_loop(src, r.s,
                        Append(toks, TokenMetadata(r.token, position)),
                        Append(spans, [start |-> n.s.current - 1,
                                       end |-> r.s.current]))

\* Scanner::tokens returning the vector without the push of the Eof token
tokens_without_eof(src) ==
    LET r == tokens_loop(src, reset(new(src)), <<>>, <<>>)
    IN IF r.err # "none" THEN ScanError(r.err, r.position)
       ELSE [err |-> "none", position |-> r.s.position,
             tokens |-> r.tokens, spans |-> r.spans]

\* Scanner::tokens on a fresh Scanner::new(src)
tokens(src) ==
    LET r == tokens_loop(src, reset(new(src)), <<>>, <<>>)
        eof == advance(r.s)
    IN IF r.err # "none" THEN ScanError(r.err, r.position)
       ELSE [err |-> "none", position |-> eof.position,
             tokens |-> Append(r.tokens,
                               TokenMetadata(Token("Eof"), eof.position)),
             spans |-> Append(r.spans, [start |-> r.s.current,
                                        end |-> eof.current])]

(***************************************************************************)
(* Expression: the four node kinds of ast/types.rs.                        *)
(***************************************************************************)
NoExpr == [kind |-> "None"]

Unary(operator, right) ==
    [kind |-> "Unary", operator |-> operator, right |-> right]

Binary(left, operator, right) ==
    [kind |-> "Binary", left |-> left, operator |-> operator, right |-> right]

Grouping(group) == [kind |-> "Grouping", group |-> group]

Literal(literal) == [kind |-> "Literal", literal |-> literal]

(***************************************************************************)
(* Parser.  The token vector toks never changes; current is the cursor.    *)
(* A parsing method returns [err, expr, current]: the Result and the       *)
(* cursor it leaves behind.                                                *)
(***************************************************************************)
Ok(expr, current) == [err |-> "none", expr |-> expr, current |-> current]

Err(err, current) == [err |-> err, expr |-> NoExpr, current |-> current]

\* Option<&TokenMetadata>: NoToken at NoPosition stands for None
NoPosition == Position(0, 0)

peek(toks, current) ==
    IF current < Len(toks) THEN toks[current + 1]
    ELSE TokenMetadata(NoToken, NoPosition)

is_at_end(toks, current) == peek(toks, current).token = Token("Eof")

check(toks, current, token_type) ==
    IF is_at_end(toks, current) THEN FALSE
    ELSE peek(toks, current).token = token_type

\* previous reading the token at the cursor instead of the one before it
previous_at_cursor(toks, current) == peek(toks, current)

previous(toks, current) ==
    IF current = 0 THEN TokenMetadata(NoToken, NoPosition)
    ELSE peek(toks, current - 1)

\* Parser::advance stepping over two tokens
parser_advance_twice(current) == current + 2

\* Parser::advance: the cursor after the step
parser_advance(current) == current + 1

\* matches: whether one of types is at the cursor, and the cursor afterwards
matches(toks, current, types) ==
    IF \E i \in 1..Len(types) : check(toks, current, Token(types[i]))
    THEN [matched |-> TRUE, current |-> parser_advance(current)]
    ELSE [matched |-> FALSE, current |-> current]

\* Parser::consume advancing without the check
consume_unchecked(toks, current, token_type) ==
    [err |-> "none", current |-> parser_advance(current)]

consume(toks, current, token_type) ==
    IF check(toks, current, Token(token_type))
    THEN [err |-> "none", current |-> parser_advance(current)]
    ELSE [err |-> "Consume", current |-> current]

RECURSIVE expression(_, _), equality_loop(_, _, _),
          comparison_loop(_, _, _), term_loop(_, _, _),
          factor_loop(_, _, _), unary(_, _)

\* the grouping arm of primary after consume(RightParenthesis) returned
primary_close(group, close) ==
    IF close.err # "none" THEN Err(close.err, close.current)
    ELSE Ok(Grouping(group.expr), close.current)

\* the grouping arm of primary once the inner expression has returned:
\* the `?` on it, then consume(RightParenthesis)
primary_group(toks, group) ==
    IF group.err # "none" THEN group
    ELSE primary_close(group,
                       consume(toks, group.current, "RightParenthesis"))

\* the match on peek().unwrap().token in primary, and what follows it
primary_peek(toks, current, t) ==
    IF t = NoToken THEN Err("panic", current)
    ELSE IF t.type = "String"
    THEN Ok(Literal(String(t.text)), parser_advance(current))
    ELSE IF t.type = "Number"
    THEN Ok(Literal(Number(t.num)), parser_advance(current))
    ELSE IF matches(toks, current, <<"LeftParenthesis">>).matched
    THEN primary_group(toks, expression(toks, parser_advance(current)))
    ELSE Err("Unexpected", current)

primary(toks, current) ==
    IF matches(toks, current, <<"False">>).matched
    THEN Ok(Literal(Token("False")), parser_advance(current))
    ELSE IF matches(toks, current, <<"True">>).matched
    THEN Ok(Literal(Token("True")), parser_advance(current))
    ELSE IF matches(toks, current, <<"Null">>).matched
    THEN Ok(Literal(Token("Null")), parser_advance(current))
    ELSE primary_peek(toks, current, peek(toks, current).token)

\* unary returning its operand as it is, the operator dropped
unary_node_without_operator(operator, right) == right

\* Ok(Expression::Unary {operator, right}) after the `?` on right
unary_node(operator, right) ==
    IF right.err # "none" THEN right
    ELSE Ok(Unary(operator, right.expr), right.current)

unary(toks, current) ==
    IF matches(toks, current, <<"Bang", "Minus">>).matched
    THEN unary_node(previous(toks, parser_advance(current)).token,
                    unary(toks, parser_advance(current)))
    ELSE primary(toks, current)

\* one turn of the while loop of factor, after the right operand returned
factor_fold(toks, expr, operator, right) ==
    IF right.err # "none" THEN right
    ELSE factor_loop(toks, right.current, Binary(expr, operator, right.expr))

factor_loop(toks, current, expr) ==
    IF matches(toks, current, <<"Slash", "Star">>).matched
    THEN factor_fold(toks, expr,
                     previous(toks, parser_advance(current)).token,
                     unary(toks, parser_advance(current)))
    ELSE Ok(expr, current)

\* factor after its first operand returned
factor_first(toks, first) ==
    IF first.err # "none" THEN first
    ELSE factor_loop(toks, first.current, first.expr)

factor(toks, current) == factor_first(toks, unary(toks, current))

\* the loop body of Parser::term with the children of the new node swapped
term_fold_swapped(toks, expr, operator, right) ==
    IF right.err # "none" THEN right
    ELSE term_loop(toks, right.current, Binary(right.expr, operator, expr))

term_fold(toks, expr, operator, right) ==
    IF right.err # "none" THEN right
    ELSE term_loop(toks, right.current, Binary(expr, operator, right.expr))

term_loop(toks, current, expr) ==
    IF matches(toks, current, <<"Minus", "Plus">>).matched
    THEN term_fold(toks, expr,
                   previous(toks, parser_advance(current)).token,
                   factor(toks, parser_advance(current)))
    ELSE Ok(expr, current)

term_first(toks, first) ==
    IF first.err # "none" THEN first
    ELSE term_loop(toks, first.current, first.expr)

\* Parser::term taking its first operand from unary, one level too deep:
\* a '*' or '/' after it is then left unparsed
term_skipping_factor(toks, current) ==
    term_first(toks, unary(toks, current))

term(toks, current) == term_first(toks, factor(toks, current))

comparison_fold(toks, expr, operator, right) ==
    IF right.err # "none" THEN right
    ELSE comparison_loop(toks, right.current,
                         Binary(expr, operator, right.expr))

comparison_loop(toks, current, expr) ==
    IF matches(toks, current,
               <<"Greater", "GreaterEqual", "Less", "LessEqual">>).matched
    THEN comparison_fold(toks, expr,
                         previous(toks, parser_advance(current)).token,
                         term(toks, parser_advance(current)))
    ELSE Ok(expr, current)

comparison_first(toks, first) ==
    IF first.err # "none" THEN first
    ELSE comparison_loop(toks, first.current, first.expr)

comparison(toks, current) == comparison_first(toks, term(toks, current))

equality_fold(toks, expr, operator, right) ==
    IF right.err # "none" THEN right
    ELSE equality_loop(toks, right.current,
                       Binary(expr, operator, right.expr))

equality_loop(toks, current, expr) ==
    IF matches(toks, current, <<"BangEqual", "EqualEqual">>).matched
    THEN equality_fold(toks, expr,
                       previous(toks, parser_advance(current)).token,
                       comparison(toks, parser_advance(current)))
    ELSE Ok(expr, current)

equality_first(toks, first) ==
    IF first.err # "none" THEN first
    ELSE equality_loop(toks, first.current, first.expr)

equality(toks, current) == equality_first(toks, comparison(toks, current))

expression(toks, current) == equality(toks, current)

\* an Ok result turned into an error when its cursor is not on the Eof
require_eof(toks, r) ==
    IF r.err = "none" /\ ~is_at_end(toks, r.current)
    THEN Err("Unexpected", r.current)
    ELSE r

\* parse refusing an expression that stops before the Eof
parse_to_eof(toks) == require_eof(toks, expression(toks, 0))

\* Parser::parse on a fresh Parser::new(toks)
parser_parse(toks) == expression(toks, 0)

(***************************************************************************)
(* AstPrinter (ast/printer.rs).  A visit returns [err, text].              *)
(***************************************************************************)
PrintOk(text) == [err |-> "none", text |-> text]

PrintErr == [err |-> "AstPrinterError", text |-> <<>>]

RECURSIVE accept(_)

RECURSIVE parenthesize_loop(_, _, _)

\* one turn of the for loop of parenthesize, after accept returned r
parenthesize_push(out, expressions, i, r) ==
    IF r.err # "none" THEN r
    ELSE parenthesize_loop(out \o <<" ">> \o r.text, expressions, i + 1)

\* the for loop of parenthesize, from the i-th expression on
parenthesize_loop(out, expressions, i) ==
    IF i > Len(expressions) THEN PrintOk(Append(out, ")"))
    ELSE parenthesize_push(out, expressions, i, accept(expressions[i]))

parenthesize(name, expressions) ==
    parenthesize_loop(<<"(">> \o name, expressions, 1)

visit_unary(expr) ==
    IF expr.operator.type = "Minus"
    THEN parenthesize(<<"-">>, <<expr.right>>)
    ELSE PrintErr

visit_binary(expr) ==
    CASE expr.operator.type = "Plus" ->
            parenthesize(<<"+">>, <<expr.left, expr.right>>)
      [] expr.operator.type = "Minus" ->
            parenthesize(<<"-">>, <<expr.left, expr.right>>)
      [] expr.operator.type = "Star" ->
            parenthesize(<<"*">>, <<expr.left, expr.right>>)
      [] OTHER -> PrintErr

visit_grouping(expr) ==
    parenthesize(<<"g", "r", "o", "u", "p">>, <<expr.group>>)

visit_literal(expr) ==
    CASE expr.literal.type = "String" -> PrintOk(expr.literal.text)
      [] expr.literal.type = "Number" ->
            PrintOk(f64_to_string(expr.literal.num))
      [] OTHER -> PrintErr

accept(expr) ==
    CASE expr.kind = "Unary" -> visit_unary(expr)
      [] expr.kind = "Binary" -> visit_binary(expr)
      [] expr.kind = "Grouping" -> visit_grouping(expr)
      [] expr.kind = "Literal" -> visit_literal(expr)

\* AstPrinter::print
printer_print(expr) == accept(expr)

(***************************************************************************)
(* Inputs.                                                                 *)
(***************************************************************************)
SeqsUpTo(S, n) == UNION {[1..k -> S] : k \in 0..n}

\* the alphabet of the enumerated source texts
Chars ==
    { "1", ".", "a", "+", "-", "*", "/", "(", ")", "\"", "\n", " ", "=",
      "!", "<", "&", "|", "#" }

\* the sources the repository's tests and documentation name, and variants
\* of them whose numbers and identifiers are longer than one character
Examples ==
    { <<"2", "*", "(", "4", "-", "1", ".", "1", "2", "3", ")">>,
      <<"1", "+", "2", "*", "3">>,
      <<"1", "-", "2", "-", "3">>,
      <<"1", " ", "*", " ", "(", "2", " ", "+", " ", "3", ")">>,
      <<"1", "+", "2">>,
      <<"a", "+", "b">>,
      <<"2", "0", "*", "(", "4", "0", "-", "1", ".", "1", "2", "3", ")">>,
      <<"1", "0", "+", "2", "0", "*", "3">>,
      <<"1", "0", "-", "2", "0", "-", "3">>,
      <<"t", "r", "u", "e">>,
      <<"!", "t", "r", "u", "e">>,
      <<"1", "0", "/", "2", "0">>,
      <<"1", "0", "<", "=", "2", "0">>,
      <<"\"", "h", "i", "\"", "+", "\"", "a", "\"">>,
      <<"(", ")", "{", "}">>,
      <<"/", "*", " ", "n", "o", " ", "e", "n", "d">>,
      <<"(", "1", "+", "2">>,
      <<"*", "1">>,
      <<"-", "-", "1">>,
      <<"\"", "a", "\n", "b", "\"", " ", "c">>,
      <<"\"", "\"", " ", "c">>,
      << "!", " ", "!", "=", " ", "=", " ", "=", "=", " ", ">", " ", ">",
         "=", " ", "<", " ", "<", "=", " ", "&", "&", " ", "|", "|" >> }

Sources == SeqsUpTo(Chars, MaxLen) \cup Examples

\* the token kinds of the enumerated token sequences
TokenKinds ==
    { Number([m |-> 1, k |-> 0]), Token("True"), Token("Null"),
      String(<<"s">>), Token("Bang"), Token("Minus"), Token("Plus"),
      Token("Star"), Token("Less"), Token("EqualEqual"),
      Token("LeftParenthesis"), Token("RightParenthesis"),
      Token("Semicolon") }

BinaryOperators ==
    { "BangEqual", "EqualEqual", "Greater", "GreaterEqual", "Less",
      "LessEqual", "Minus", "Plus", "Slash", "Star" }

\* the i-th operand of a chain: the number i, so that no two are alike
Operand(i) == Number([m |-> i, k |-> 0])

\* operand (operator operand)^n, n <= MaxOps, over all binary operators
Chain(o) ==
    [i \in 1..(2 * Len(o) + 1) |->
        IF i % 2 = 1 THEN Operand((i + 1) \div 2) ELSE Token(o[i \div 2])]

Chains == {Chain(o) : o \in SeqsUpTo(BinaryOperators, MaxOps)}

\* a token vector as the scanner hands it over: positioned, Eof-terminated
WithEof(ts) ==
    [i \in 1..(Len(ts) + 1) |->
        TokenMetadata(IF i <= Len(ts) THEN ts[i] ELSE Token("Eof"),
                      Position(1, i))]

TokenInputs ==
    {WithEof(ts) : ts \in SeqsUpTo(TokenKinds, MaxTokens) \cup Chains}

\* one token kind of each sort the parser tells apart: a literal read by
\* peek, a keyword literal, an operator that is prefix and binary, a binary
\* operator, the parentheses, and a token no rule takes
CursorTokenKinds ==
    { Number([m |-> 1, k |-> 0]), Token("True"), Token("Minus"),
      Token("Star"), Token("LeftParenthesis"), Token("RightParenthesis"),
      Token("Semicolon") }

CursorInputs ==
    {WithEof(ts) : ts \in SeqsUpTo(CursorTokenKinds, MaxTokens) \cup Chains}

(***************************************************************************)
(* The pipeline of parser.rs tests::basic and main.rs: tokens(), then      *)
(* Parser::new(tokens).parse(), then AstPrinter.print(); each unwrap ends  *)
(* the run at the first Err.                                               *)
(***************************************************************************)
NoScan == [err |-> "none", position |-> NoPosition, tokens |-> <<>>,
           spans |-> <<>>]

NoParse == [err |-> "none", expr |-> NoExpr, current |-> 0]

NoPrint == [err |-> "none", text |-> <<>>]

Init ==
    /\ code \in Sources
    /\ pc = "scan"
    /\ scan = NoScan
    /\ parse = NoParse
    /\ print = NoPrint

\* a parser handed a token vector directly (Parser::new is public)
InitParser ==
    /\ code = <<>>
    /\ pc = "parse"
    /\ scan \in {[err |-> "none", position |-> NoPosition, tokens |-> ts,
                  spans |-> <<>>] : ts \in TokenInputs}
    /\ parse = NoParse
    /\ print = NoPrint

RunScanner ==
    /\ pc = "scan"
    /\ scan' = tokens(code)
    /\ pc' = IF scan'.err = "none" THEN "parse" ELSE "done"
    /\ UNCHANGED <<code, parse, print>>

RunParser ==
    /\ pc = "parse"
    /\ parse' = parser_parse(scan.tokens)
    /\ pc' = IF parse'.err = "none" THEN "print" ELSE "done"
    /\ UNCHANGED <<code, scan, print>>

RunPrinter ==
    /\ pc = "print"
    /\ print' = printer_print(parse.expr)
    /\ pc' = "done"
    /\ UNCHANGED <<code, scan, parse>>

Next == RunScanner \/ RunParser \/ RunPrinter

Spec == Init /\ [][Next]_vars

NextParser == RunParser \/ RunPrinter

ParserSpec == InitParser /\ [][NextParser]_vars

\* both ways in: a source text through the whole pipeline, or a token
\* vector handed to Parser::new
InitAny == Init \/ InitParser

AnySpec == InitAny /\ [][Next]_vars

\* a parser handed one of the vectors over CursorTokenKinds
InitCursor ==
    /\ code = <<>>
    /\ pc = "parse"
    /\ scan \in {[err |-> "none", position |-> NoPosition, tokens |-> ts,
                  spans |-> <<>>] : ts \in CursorInputs}
    /\ parse = NoParse
    /\ print = NoPrint

CursorSpec == InitCursor /\ [][NextParser]_vars

(***************************************************************************)
(* Properties.                                                             *)
(***************************************************************************)
\* the scanner has returned Ok
Scanned == pc # "scan" /\ scan.err = "none"

\* C2: whenever tokenize returns a token sequence (the empty source
\* included), its last element is an Eof token and no element before the
\* last is an Eof token.
C2_EofLastAndOnlyLast ==
    Scanned =>
        /\ Len(scan.tokens) >= 1
        /\ scan.tokens[Len(scan.tokens)].token = Token("Eof")
        /\ \A i \in 1..(Len(scan.tokens) - 1) :
              scan.tokens[i].token.type # "Eof"

\* a source scanned to at least two tokens and the Eof after them
C2_Witness ==
    /\ Scanned
    /\ Len(scan.tokens) >= 3

\* the parser has returned
Parsed == pc \in {"print", "done"} /\ scan.err = "none" /\ parse # NoParse

\* the tokens handed to the parser, without positions
InputTokens == [i \in 1..Len(scan.tokens) |-> scan.tokens[i].token]

\* the operators of an operand/operator chain, in source order
OperatorsOf(ts) == [j \in 1..((Len(ts) - 2) \div 2) |-> ts[2 * j].type]

\* the input is operand (operator operand)^n Eof with the operands 1, 2, ..
IsChain ==
    /\ Len(InputTokens) % 2 = 0
    /\ SubSeq(InputTokens, 1, Len(InputTokens) - 1)
          = Chain(OperatorsOf(InputTokens))
    /\ \A j \in 1..Len(OperatorsOf(InputTokens)) :
          OperatorsOf(InputTokens)[j] \in BinaryOperators

\* the precedence level of a binary operator, as the grammar orders them
Level(type) ==
    CASE type \in {"BangEqual", "EqualEqual"} -> 1
      [] type \in {"Greater", "GreaterEqual", "Less", "LessEqual"} -> 2
      [] type \in {"Minus", "Plus"} -> 3
      [] type \in {"Slash", "Star"} -> 4

RECURSIVE Flatten(_)
\* the tokens of a tree in source order
Flatten(e) ==
    CASE e.kind = "Literal" -> <<e.literal>>
      [] e.kind = "Unary" -> <<e.operator>> \o Flatten(e.right)
      [] e.kind = "Binary" ->
            Flatten(e.left) \o <<e.operator>> \o Flatten(e.right)
      [] e.kind = "Grouping" ->
            <<Token("LeftParenthesis")>> \o Flatten(e.group)
            \o <<Token("RightParenthesis")>>

RECURSIVE BinaryNodes(_)
\* the Binary nodes of a tree, itself included
BinaryNodes(e) ==
    CASE e.kind = "Literal" -> {}
      [] e.kind = "Unary" -> BinaryNodes(e.right)
      [] e.kind = "Binary" ->
            {e} \cup BinaryNodes(e.left) \cup BinaryNodes(e.right)
      [] e.kind = "Grouping" -> BinaryNodes(e.group)

\* in the tree of a chain: the node built for the j-th operator, the one
\* whose left subtree ends at operand j
NodeOf(e, j) ==
    CHOOSE b \in BinaryNodes(e) :
        Flatten(b.left)[Len(Flatten(b.left))] = Operand(j)

IsChildOf(c, p) == p.left = c \/ p.right = c

IsBelow(c, p) == c # p /\ c \in BinaryNodes(p)

\* the j-th and (j+1)-th operators of different levels, as <<lower, higher>>
AdjacentLevels(ops) ==
    { IF Level(ops[j]) < Level(ops[j + 1]) THEN <<j, j + 1>>
      ELSE <<j + 1, j>> :
        j \in {i \in 1..(Len(ops) - 1) : Level(ops[i]) # Level(ops[i + 1])} }

\* the chain was parsed whole, into a tree that holds its tokens in order
ChainParsedWhole ==
    /\ parse.err = "none"
    /\ parse.current = Len(InputTokens) - 1
    /\ Flatten(parse.expr) \o <<Token("Eof")>> = InputTokens

OnePlusTwoTimesThree == Chain(<<"Plus", "Star">>)

\* C4 as stated: on an unparenthesized chain, whenever a higher-level
\* operator is adjacent to a lower-level one, the higher-level Binary node
\* is a child of the lower-level Binary node.
C4_HigherIsChildOfLower ==
    (Parsed /\ IsChain) =>
        /\ ChainParsedWhole
        /\ \A p \in AdjacentLevels(OperatorsOf(InputTokens)) :
              IsChildOf(NodeOf(parse.expr, p[2]), NodeOf(parse.expr, p[1]))

\* C4 (amended): on an unparenthesized chain, parse consumes every token
\* up to the Eof, the tree holds the tokens in source order, and whenever a
\* higher-level operator is adjacent to a lower-level one, the higher-level
\* Binary node lies in the subtree of the lower-level Binary node (as its
\* child or deeper); 1 + 2 * 3 parses to Binary(+, 1, Binary(*, 2, 3)).
C4_HigherIsBelowLower ==
    (Parsed /\ IsChain) =>
        /\ ChainParsedWhole
        /\ \A p \in AdjacentLevels(OperatorsOf(InputTokens)) :
              IsBelow(NodeOf(parse.expr, p[2]), NodeOf(parse.expr, p[1]))
        /\ (SubSeq(InputTokens, 1, Len(InputTokens) - 1)
               = OnePlusTwoTimesThree
            => parse.expr =
                 Binary(Literal(Operand(1)), Token("Plus"),
                        Binary(Literal(Operand(2)), Token("Star"),
                               Literal(Operand(3)))))

\* 1 + 2 * 3 + 4 parsed: the '*' node is below the second '+' node, but
\* two levels down
C4_Witness ==
    /\ Parsed
    /\ InputTokens = Chain(<<"Plus", "Star", "Plus">>) \o <<Token("Eof")>>
    /\ parse.expr =
         Binary(Binary(Literal(Operand(1)), Token("Plus"),
                       Binary(Literal(Operand(2)), Token("Star"),
                              Literal(Operand(3)))),
                Token("Plus"), Literal(Operand(4)))

RECURSIVE LeftLeaning(_, _)
\* the left-leaning tree of the first n operators of a chain: each new
\* node has the tree so far on the left and the next operand on the right
LeftLeaning(ts, n) ==
    IF n = 0 THEN Literal(ts[1])
    ELSE Binary(LeftLeaning(ts, n - 1), ts[2 * n], Literal(ts[2 * n + 1]))

\* every operator of the chain is of one precedence level
OneLevel(ops) == \A i, j \in 1..Len(ops) : Level(ops[i]) = Level(ops[j])

\* C5: on a chain of n >= 2 operators of one precedence level, parse
\* consumes every token up to the Eof and returns the left-leaning tree;
\* 1 - 2 - 3 parses to Binary(-, Binary(-, 1, 2), 3).
C5_SameLevelLeansLeft ==
    (/\ Parsed
     /\ IsChain
     /\ Len(OperatorsOf(InputTokens)) >= 2
     /\ OneLevel(OperatorsOf(InputTokens))) =>
        /\ parse.err = "none"
        /\ parse.current = Len(InputTokens) - 1
        /\ parse.expr =
             LeftLeaning(InputTokens, Len(OperatorsOf(InputTokens)))

\* 1 - 2 - 3 parsed to Binary(-, Binary(-, 1, 2), 3)
C5_Witness ==
    /\ Parsed
    /\ InputTokens = Chain(<<"Minus", "Minus">>) \o <<Token("Eof")>>
    /\ parse.expr =
         Binary(Binary(Literal(Operand(1)), Token("Minus"),
                       Literal(Operand(2))),
                Token("Minus"), Literal(Operand(3)))

RECURSIVE ExpectedOutcome(_, _, _, _)
\* the outcome the grammar gives a token vector, read left to right from
\* the i-th token: operand says whether an operand has to come next, depth
\* counts the '(' still open.  An operand is required, after any prefix
\* operators, at the start, after a binary operator and after '('.
ExpectedOutcome(ts, i, operand, depth) ==
    LET t == ts[i].type
    IN IF operand
       THEN IF t \in {"Bang", "Minus"}
            THEN ExpectedOutcome(ts, i + 1, TRUE, depth)
            ELSE IF t \in {"Number", "String", "True", "False", "Null"}
            THEN ExpectedOutcome(ts, i + 1, FALSE, depth)
            ELSE IF t = "LeftParenthesis"
            THEN ExpectedOutcome(ts, i + 1, TRUE, depth + 1)
            ELSE [err |-> "Unexpected", current |-> i - 1]
       ELSE IF t \in BinaryOperators
            THEN ExpectedOutcome(ts, i + 1, TRUE, depth)
            ELSE IF t = "RightParenthesis" /\ depth > 0
            THEN ExpectedOutcome(ts, i + 1, FALSE, depth - 1)
            ELSE IF depth > 0 THEN [err |-> "Consume", current |-> i - 1]
            ELSE [err |-> "none", current |-> i - 1]

\* C6: on an Eof-terminated token vector parse fails with Consume exactly
\* when the token after a '(' and its completely parsed inner expression is
\* not ')', and with Unexpected exactly when primary is reached (an operand
\* is required and the prefix operators before it are consumed) at a token
\* that is none of NUMBER, STRING, true, false, null, '('; the cursor stays
\* on that token and no tree is returned.  ( NUMBER + NUMBER Eof gives
\* Consume and * NUMBER Eof gives Unexpected.
C6_ConsumeAndUnexpected ==
    Parsed =>
        /\ parse.err = ExpectedOutcome(InputTokens, 1, TRUE, 0).err
        /\ parse.current = ExpectedOutcome(InputTokens, 1, TRUE, 0).current
        /\ parse.err # "none" => parse.expr = NoExpr
        /\ (InputTokens = <<Token("LeftParenthesis"), Operand(1),
                            Token("Plus"), Operand(1), Token("Eof")>>
            => parse.err = "Consume")
        /\ (InputTokens = <<Token("Star"), Operand(1), Token("Eof")>>
            => parse.err = "Unexpected")

\* ( NUMBER + NUMBER Eof has been refused with Consume, at the Eof
C6_Witness ==
    /\ Parsed
    /\ InputTokens = <<Token("LeftParenthesis"), Operand(1), Token("Plus"),
                       Operand(1), Token("Eof")>>
    /\ parse.err = "Consume"
    /\ parse.current = 4

\* the pipeline has ended: at the first Err, or after the printer
Done == pc = "done"

\* every stage ran and returned Ok
PipelineOk ==
    /\ Done
    /\ scan.err = "none"
    /\ parse.err = "none"
    /\ print.err = "none"

\* texts of operands of the grammar: NUMBER, STRING, true, false, null
OperandTexts ==
    { <<"1">>, <<"1", "0">>, <<"1", ".", "1">>, <<"\"", "a", "\"">>,
      <<"t", "r", "u", "e">>, <<"f", "a", "l", "s", "e">>,
      <<"n", "u", "l", "l">> }

PrefixTexts == {<<"!">>, <<"-">>}

BinaryTexts ==
    { <<"*">>, <<"/">>, <<"+">>, <<"-">>, <<">">>, <<">", "=">>, <<"<">>,
      <<"<", "=">>, <<"=", "=">>, <<"!", "=">> }

\* expressions of the grammar with at most one operator or one pair of
\* parentheses, and the three sources the documentation works out
ValidExpressions ==
    OperandTexts
    \cup {p \o a : p \in PrefixTexts, a \in OperandTexts}
    \cup {<<"(">> \o a \o <<")">> : a \in OperandTexts}
    \cup {a \o o \o b : a \in OperandTexts, o \in BinaryTexts,
                        b \in OperandTexts}
    \cup { <<"1", "+", "2", "*", "3">>, <<"1", "-", "2", "-", "3">>,
           <<"2", "*", "(", "4", "-", "1", ".", "1", "2", "3", ")">> }

\* C1: for every source that is a syntactically valid expression, tokenize,
\* parse and print each return Ok.  (That the result depends only on the
\* source is how the stages are defined here, as functions of it.)
C1_ValidSourcePrints == (Done /\ code \in ValidExpressions) => PipelineOk

GroupingSource == <<"2", "*", "(", "4", "-", "1", ".", "1", "2", "3", ")">>

GroupingTree ==
    Binary(Literal(Number([m |-> 2, k |-> 0])), Token("Star"),
           Grouping(Binary(Literal(Number([m |-> 4, k |-> 0])),
                           Token("Minus"),
                           Literal(Number([m |-> 1123, k |-> 3])))))

GroupingText ==
    << "(", "*", " ", "2", " ", "(", "g", "r", "o", "u", "p", " ", "(",
       "-", " ", "4", " ", "1", ".", "1", "2", "3", ")", ")", ")" >>

\* C3: tokenize, parse and print on 2*(4-1.123) succeed, the tree is
\* Binary(*, 2, Grouping(Binary(-, 4, 1.123))) and the text is
\* (* 2 (group (- 4 1.123))).
C3_GroupingExample ==
    (Done /\ code = GroupingSource) =>
        /\ PipelineOk
        /\ parse.expr = GroupingTree
        /\ print.text = GroupingText

\* the line and column of the character at 0-based index i of src: one
\* more than the newlines before it, and one more than the characters
\* between the newline before it (or the start) and it
PositionOf(src, i) ==
    LET newlines == {j \in 1..i : src[j] = "\n"}
        after == IF newlines = {} THEN 0
                 ELSE CHOOSE j \in newlines : \A l \in newlines : l <= j
    IN Position(1 + Cardinality(newlines), 1 + (i - after))

\* the tokens before the Eof
TokenIndices == 1..(Len(scan.tokens) - 1)

\* C7: every token tokenize emits carries the 1-indexed line and column of
\* its first character in the source, newlines inside comments and string
\* literals counted.
C7_TokenPositions ==
    Scanned =>
        \A i \in TokenIndices :
            scan.tokens[i].position = PositionOf(code, scan.spans[i].start)

\* the length of the longest run of characters of class in src from the
\* 0-based index i on
RECURSIVE RunLength(_, _, _)
RunLength(src, i, class) ==
    IF i < Len(src) /\ src[i + 1] \in class
    THEN 1 + RunLength(src, i + 1, class)
    ELSE 0

\* the run of characters of class that begins at 0-based index i
Run(src, i, class) == SubSeq(src, i + 1, i + RunLength(src, i, class))

NumberChars == Digits \cup {"."}

\* C8: a number literal is exactly the maximal run of digits and '.' that
\* begins at a digit, runs of a single digit included: the token is the
\* Number of that run, and the character after the run is left for the
\* next token; a source that begins with such a run is not refused as a
\* malformed number when the run is a well-formed float; 1+2 scans to
\* Number(1), Plus, Number(2), Eof.
C8_NumberIsMaximalRun ==
    /\ Scanned =>
          \A i \in TokenIndices :
              scan.tokens[i].token.type = "Number" =>
                  /\ scan.spans[i].end = scan.spans[i].start
                        + RunLength(code, scan.spans[i].start, NumberChars)
                  /\ scan.tokens[i].token.num
                        = parse_f64(Run(code, scan.spans[i].start,
                                        NumberChars)).num
    /\ (/\ pc # "scan"
        /\ Len(code) > 0
        /\ code[1] \in Digits
        /\ parse_f64(Run(code, 0, NumberChars)).ok)
          => ~(/\ scan.err = "NumberLiteralParsingError"
               /\ scan.position = Position(1, 1))
    /\ (pc # "scan" /\ code = <<"1", "+", "2">>)
          => /\ scan.err = "none"
             /\ [i \in 1..Len(scan.tokens) |-> scan.tokens[i].token]
                   = << Number([m |-> 1, k |-> 0]), Token("Plus"),
                        Number([m |-> 2, k |-> 0]), Token("Eof") >>

KeywordTypes == {k[2] : k \in Keywords}

\* C9: an identifier or keyword lexeme is exactly the maximal run of
\* alphanumeric characters that begins at an alphabetic character, runs of
\* one character included: the keyword token if the run is a reserved
\* word, else Identifier(run); the character after the run is left for the
\* next token; a+b scans to Identifier(a), Plus, Identifier(b), Eof.
C9_IdentifierIsMaximalRun ==
    Scanned =>
        \A i \in TokenIndices :
            scan.tokens[i].token.type \in KeywordTypes \cup {"Identifier"} =>
                LET run == Run(code, scan.spans[i].start,
                               Letters \cup Digits)
                    kw == {k \in Keywords : k[1] = run}
                IN /\ scan.spans[i].end = scan.spans[i].start + Len(run)
                   /\ scan.tokens[i].token =
                         IF kw = {} THEN Identifier(run)
                         ELSE Token((CHOOSE k \in kw : TRUE)[2])

\* the 0-based indices of the '"' after index i
QuotesAfter(src, i) == {j \in (i + 1)..(Len(src) - 1) : src[j + 1] = "\""}

\* C10: for a string literal that has a closing quote, the String token's
\* text is exactly the characters strictly between the opening '"' and the
\* next '"' after it (none for ""), and scanning resumes right after that
\* closing quote.
C10_StringBetweenQuotes ==
    Scanned =>
        \A i \in TokenIndices :
            (/\ scan.tokens[i].token.type = "String"
             /\ QuotesAfter(code, scan.spans[i].start) # {}) =>
                LET open == scan.spans[i].start
                    close == CHOOSE j \in QuotesAfter(code, open) :
                                \A l \in QuotesAfter(code, open) : j <= l
                IN /\ scan.tokens[i].token.text
                         = SubSeq(code, open + 2, close)
                   /\ scan.spans[i].end = close + 1

\* src begins with the two characters of a block comment's opener
OpensComment(src) == Len(src) >= 2 /\ src[1] = "/" /\ src[2] = "*"

\* a '*' at a 0-based index >= from is directly followed by '/'
HasCloser(src, from) ==
    \E j \in from..(Len(src) - 2) : src[j + 1] = "*" /\ src[j + 2] = "/"

\* C11: for every input in which a block comment is opened by /* and no
\* closing */ occurs before the end of the input, whatever follows the
\* opener (a trailing newline included), tokenize fails with
\* UnterminatedMultilineComment and returns no token sequence.
C11_UnterminatedCommentFails ==
    (pc # "scan" /\ OpensComment(code) /\ ~HasCloser(code, 1)) =>
        /\ scan.err = "UnterminatedMultilineComment"
        /\ scan.tokens = <<>>

NoEndSource == <<"/", "*", " ", "n", "o", " ", "e", "n", "d">>

\* C12: when tokenize fails with UnterminatedMultilineComment, the error
\* carries the position of the comment's opening '/', not the position
\* where the input ended; for /* no end it is line 1, column 1.
C12_ErrorAtOpener ==
    /\ (/\ pc # "scan"
        /\ scan.err = "UnterminatedMultilineComment"
        /\ OpensComment(code)
        /\ ~HasCloser(code, 1))
          => scan.position = Position(1, 1)
    /\ (pc # "scan" /\ code = NoEndSource)
          => /\ scan.err = "UnterminatedMultilineComment"
             /\ scan.position = Position(1, 1)

OperatorTypes ==
    {p[3] : p \in TwoCharacterTokens} \cup {p[2] : p \in OneCharacterTokens}

\* sources of operator characters, one-character operands and blanks: no
\* character of them opens a string literal or a comment
OperatorSource(src) ==
    \A i \in 1..Len(src) :
        src[i] \in {"!", "=", ">", "<", "&", "|", "1", "a", " "}

\* the operator read at 0-based index i of src, as the claim words it
OperatorAt(src, i) ==
    LET curr == src[i + 1]
        nxt == get(src, i + 1)
        two == {p \in TwoCharacterTokens : p[1] = curr /\ p[2] = nxt}
        one == {p \in OneCharacterTokens : p[1] = curr}
    IN IF two # {} THEN [type |-> (CHOOSE p \in two : TRUE)[3], len |-> 2]
       ELSE IF one # {} THEN [type |-> (CHOOSE p \in one : TRUE)[2], len |-> 1]
       ELSE IF curr \in {"&", "|"} THEN [type |-> "UnexpectedToken", len |-> 0]
       ELSE [type |-> "None", len |-> 1]

RECURSIVE ExpectedOperators(_, _, _)
\* the operator tokens of src from index i on, read left to right, or the
\* index of the first lone '&' or '|'
ExpectedOperators(src, i, acc) ==
    IF i >= Len(src) THEN [err |-> "none", at |-> i, tokens |-> acc]
    ELSE LET o == OperatorAt(src, i)
         IN IF o.type = "UnexpectedToken"
            THEN [err |-> "UnexpectedToken", at |-> i, tokens |-> <<>>]
            ELSE ExpectedOperators(src, i + o.len,
                    IF o.type = "None" THEN acc
                    ELSE Append(acc, [type |-> o.type,
                                      position |-> PositionOf(src, i),
                                      start |-> i, end |-> i + o.len]))

\* the operator tokens tokenize returned, with the characters they cover
ScannedOperators ==
    LET idx == SelectSeq([i \in 1..Len(scan.tokens) |-> i],
                         LAMBDA i : scan.tokens[i].token.type \in OperatorTypes)
    IN [j \in 1..Len(idx) |->
           [type |-> scan.tokens[idx[j]].token.type,
            position |-> scan.tokens[idx[j]].position,
            start |-> scan.spans[idx[j]].start,
            end |-> scan.spans[idx[j]].end]]

\* C13: each of ! = > < followed by '=' gives the one two-character token
\* (BangEqual, EqualEqual, GreaterEqual, LessEqual) at the position of its
\* first character and takes both characters, and gives the one-character
\* token (Bang, Equal, Greater, Less) and takes one character otherwise;
\* && and || give And and Or the same way; a lone '&' or '|' makes
\* tokenize fail with UnexpectedToken at the position of that character.
C13_OneOrTwoCharacterTokens ==
    (pc # "scan" /\ OperatorSource(code)) =>
        LET e == ExpectedOperators(code, 0, <<>>)
        IN IF e.err = "UnexpectedToken"
           THEN /\ scan.err = "UnexpectedToken"
                /\ scan.position = PositionOf(code, e.at)
           ELSE /\ scan.err = "none"
                /\ ScannedOperators = e.tokens

\* the source text of an operator token
Symbol(type) ==
    CASE type = "Bang" -> <<"!">>
      [] type = "Minus" -> <<"-">>
      [] type = "Plus" -> <<"+">>
      [] type = "Slash" -> <<"/">>
      [] type = "Star" -> <<"*">>
      [] type = "Greater" -> <<">">>
      [] type = "GreaterEqual" -> <<">", "=">>
      [] type = "Less" -> <<"<">>
      [] type = "LessEqual" -> <<"<", "=">>
      [] type = "EqualEqual" -> <<"=", "=">>
      [] type = "BangEqual" -> <<"!", "=">>

RECURSIVE Printable(_)
\* the trees the claim is about: Unary over ! and -, Binary over the ten
\* binary operators, Number and String leaves
Printable(e) ==
    CASE e.kind = "Unary" ->
            e.operator.type \in {"Bang", "Minus"} /\ Printable(e.right)
      [] e.kind = "Binary" ->
            /\ e.operator.type \in BinaryOperators
            /\ Printable(e.left)
            /\ Printable(e.right)
      [] e.kind = "Grouping" -> Printable(e.group)
      [] e.kind = "Literal" -> e.literal.type \in {"Number", "String"}
      [] OTHER -> FALSE

RECURSIVE PrefixForm(_)
\* the fully parenthesized prefix form of a tree
PrefixForm(e) ==
    CASE e.kind = "Unary" ->
            <<"(">> \o Symbol(e.operator.type) \o <<" ">>
                \o PrefixForm(e.right) \o <<")">>
      [] e.kind = "Binary" ->
            <<"(">> \o Symbol(e.operator.type) \o <<" ">>
                \o PrefixForm(e.left) \o <<" ">> \o PrefixForm(e.right)
                \o <<")">>
      [] e.kind = "Grouping" ->
            <<"(", "g", "r", "o", "u", "p", " ">> \o PrefixForm(e.group)
                \o <<")">>
      [] e.kind = "Literal" ->
            IF e.literal.type = "Number" THEN f64_to_string(e.literal.num)
            ELSE e.literal.text

\* the printer has been handed the tree the parser returned
Printed == pc = "done" /\ scan.err = "none" /\ parse.err = "none"

\* C14: for every tree whose Unary operators are ! or -, whose Binary
\* operators are among != == > >= < <= - + / * and whose leaves are Number
\* or String tokens, print succeeds and returns the fully parenthesized
\* prefix form: (<symbol> <right>), (<symbol> <left> <right>),
\* (group <inner>), and a literal as its value text.
C14_PrintsPrefixForm ==
    (Printed /\ Printable(parse.expr)) =>
        print = PrintOk(PrefixForm(parse.expr))

PrefixOperators == {"Bang", "Minus"}

\* the number of prefix operators the token vector begins with
RECURSIVE PrefixRun(_, _)
PrefixRun(ts, i) ==
    IF i <= Len(ts) /\ ts[i].type \in PrefixOperators
    THEN 1 + PrefixRun(ts, i + 1)
    ELSE 0

\* the first operand of a tree: down the left operands of its Binary nodes
RECURSIVE LeftmostOperand(_)
LeftmostOperand(e) ==
    IF e.kind = "Binary" THEN LeftmostOperand(e.left) ELSE e

\* the operators of nested Unary nodes, outermost first
RECURSIVE UnaryOperators(_)
UnaryOperators(e) ==
    IF e.kind = "Unary" THEN <<e.operator>> \o UnaryOperators(e.right)
    ELSE <<>>

\* the operand below nested Unary nodes
RECURSIVE UnaryOperand(_)
UnaryOperand(e) == IF e.kind = "Unary" THEN UnaryOperand(e.right) ELSE e

MinusMinusOne == <<"-", "-", "1">>

MinusMinusOneText == <<"(", "-", " ", "(", "-", " ", "1", ")", ")">>

\* C15: a run of k >= 1 prefix operators (! or -) in front of a primary
\* parses to k nested Unary nodes, the first operator outermost and the
\* primary the innermost operand; the source --1 goes through tokenize,
\* parse and print to (- (- 1)).
C15_PrefixRunNests ==
    /\ (/\ Parsed
        /\ parse.err = "none"
        /\ PrefixRun(InputTokens, 1) >= 1) =>
           LET k == PrefixRun(InputTokens, 1)
               first == LeftmostOperand(parse.expr)
               primary_token == InputTokens[k + 1]
           IN /\ UnaryOperators(first) = SubSeq(InputTokens, 1, k)
              /\ IF primary_token.type = "LeftParenthesis"
                 THEN UnaryOperand(first).kind = "Grouping"
                 ELSE UnaryOperand(first) = Literal(primary_token)
    /\ (Done /\ code = MinusMinusOne) =>
           /\ PipelineOk
           /\ print.text = MinusMinusOneText

\* --1 has gone through the three stages
C15_Witness ==
    /\ Done
    /\ code = MinusMinusOne
    /\ PipelineOk
    /\ parse.expr = Unary(Token("Minus"),
                          Unary(Token("Minus"),
                                Literal(Number([m |-> 1, k |-> 0]))))

LiteralTypes == {"Number", "String", "True", "False", "Null"}

\* every node of the tree holds a token of the kind its place allows
RECURSIVE NodesWellTyped(_)
NodesWellTyped(e) ==
    CASE e.kind = "Unary" ->
            e.operator.type \in PrefixOperators /\ NodesWellTyped(e.right)
      [] e.kind = "Binary" ->
            /\ e.operator.type \in BinaryOperators
            /\ NodesWellTyped(e.left)
            /\ NodesWellTyped(e.right)
      [] e.kind = "Grouping" -> NodesWellTyped(e.group)
      [] e.kind = "Literal" -> e.literal.type \in LiteralTypes
      [] OTHER -> FALSE

\* C16: in every tree parse returns, each Unary node's operator is Bang or
\* Minus, each Binary node's operator is one of BangEqual, EqualEqual,
\* Greater, GreaterEqual, Less, LessEqual, Minus, Plus, Slash, Star, and
\* each Literal node holds a Number, String, True, False or Null token; no
\* other kind of token is stored in a node.
C16_NodesHoldTheirTokens ==
    (Parsed /\ parse.err = "none") => NodesWellTyped(parse.expr)

\* a returned tree with a Binary node over a Unary node and a keyword leaf
C16_Witness ==
    /\ Parsed
    /\ parse.err = "none"
    /\ parse.expr.kind = "Binary"
    /\ parse.expr.left.kind = "Unary"
    /\ parse.expr.right = Literal(Token("True"))

\* the index of the last token, the Eof
EofIndex == Len(scan.tokens) - 1

\* what each parsing function returns when it is entered at cursor c
ParserCalls(toks, c) ==
    { expression(toks, c), equality(toks, c), comparison(toks, c),
      term(toks, c), factor(toks, c), unary(toks, c), primary(toks, c) }

\* the token types matches and consume are called with
MatchedTypes ==
    BinaryOperators \cup PrefixOperators
        \cup {"False", "True", "Null", "LeftParenthesis"}

\* the cursor after each cursor-moving call entered at cursor c
CursorsAfter(toks, c) ==
    {r.current : r \in ParserCalls(toks, c)}
        \cup {matches(toks, c, <<t>>).current : t \in MatchedTypes}
        \cup {consume(toks, c, "RightParenthesis").current}

\* the parser is entered at 0; every later entry is at a cursor a call
\* left behind, so the cursors of a whole parse stay in range when each
\* call entered in range ends in range and not before its entry
CursorBounded ==
    /\ Parsed =>
          /\ parse.err # "panic"
          /\ parse.current \in 0..EofIndex
    /\ (Parsed /\ print = NoPrint) =>
          \A c \in 0..EofIndex :
              /\ \A r \in ParserCalls(scan.tokens, c) : r.err # "panic"
              /\ CursorsAfter(scan.tokens, c) \subseteq c..EofIndex

\* C17: during a call of parse on a token sequence whose only Eof is its
\* last element, the cursor never decreases and never exceeds the index of
\* the Eof, whether parse succeeds or fails; so every peek finds a token,
\* and the token list is not modified.
C17_CursorWithinTokens == []CursorBounded /\ [][scan' = scan]_vars

\* a failed parse that stopped with the cursor on the Eof
C17_Witness ==
    /\ Parsed
    /\ parse.err = "Unexpected"
    /\ EofIndex >= 2
    /\ parse.current = EofIndex

\* the 0-based index of the '*' of the first */ at or after index from
FirstCloser(src, from) ==
    CHOOSE j \in from..(Len(src) - 2) :
        /\ src[j + 1] = "*" /\ src[j + 2] = "/"
        /\ \A l \in from..(j - 1) : ~(src[l + 1] = "*" /\ src[l + 2] = "/")

\* what follows the first */ at or after index from
AfterComment(src, from) ==
    SubSeq(src, FirstCloser(src, from) + 3, Len(src))

\* the tokens of a scan without their positions
TokensOf(r) == [i \in 1..Len(r.tokens) |-> r.tokens[i].token]

\* C18: a block comment opened by /* ends at the first */ whose '*' comes
\* after the two opening characters; the opener's '*' is not reused as the
\* closer's (the three characters /*/ are not a complete comment); the
\* comment gives no token, comments do not nest, and scanning resumes at
\* the character right after the closing */.
C18_CommentEndsAtFirstCloser ==
    /\ (pc # "scan" /\ OpensComment(code) /\ HasCloser(code, 2)) =>
          /\ scan.err = tokens(AfterComment(code, 2)).err
          /\ TokensOf(scan) = TokensOf(tokens(AfterComment(code, 2)))
    /\ (/\ pc # "scan"
        /\ OpensComment(code)
        /\ ~HasCloser(code, 2)
        /\ HasCloser(code, 1))
          => scan.err # "none"

\* the 0-based indices of the '"' of src
Quotes(src) == {j \in 0..(Len(src) - 1) : src[j + 1] = "\""}

\* src holds exactly one '"', nothing before it opens a comment, and what
\* is before it scans without error when taken alone
OpensUnclosedString(src) ==
    /\ Cardinality(Quotes(src)) = 1
    /\ LET q == CHOOSE j \in Quotes(src) : TRUE
       IN /\ \A j \in 1..q : src[j] # "/"
          /\ tokens(SubSeq(src, 1, q)).err = "none"

\* the characters after the '"' of such a source
UnclosedText(src) ==
    SubSeq(src, (CHOOSE j \in Quotes(src) : TRUE) + 2, Len(src))

\* C19: when a string literal is opened by '"' and no further '"' occurs
\* in the rest of the input, tokenize returns without a ScannerError, and
\* the token sequence ends with a String token that holds every character
\* after the opening quote, followed by Eof.
C19_UnclosedStringScans ==
    (pc # "scan" /\ OpensUnclosedString(code)) =>
        /\ scan.err = "none"
        /\ Len(scan.tokens) >= 2
        /\ scan.tokens[Len(scan.tokens) - 1].token
              = String(UnclosedText(code))
        /\ scan.tokens[Len(scan.tokens)].token = Token("Eof")

OperandTypes == {"Number", "String", "True", "False", "Null"}

\* the 1-based index of the last token of the longest prefix of ts of the
\* shape operand (operator operand)*, given that ts[i] is an operand
RECURSIVE LeadingEnd(_, _)
LeadingEnd(ts, i) ==
    IF /\ i + 2 <= Len(ts)
       /\ ts[i + 1].type \in BinaryOperators
       /\ ts[i + 2].type \in OperandTypes
    THEN LeadingEnd(ts, i + 2)
    ELSE i

\* a complete expression, then a token that is neither a binary operator
\* nor the Eof
HasLeftover(ts) ==
    /\ ts[1].type \in OperandTypes
    /\ ts[LeadingEnd(ts, 1) + 1].type \notin BinaryOperators \cup {"Eof"}

\* the leading expression of the input as a token vector of its own
LeadingTokens ==
    Append(SubSeq(scan.tokens, 1, LeadingEnd(InputTokens, 1)),
           TokenMetadata(Token("Eof"), NoPosition))

\* C20: parse does not require the expression to reach the Eof: when a
\* complete expression is followed by a token that cannot continue it
\* (NUMBER NUMBER Eof, NUMBER ) Eof), parse returns Ok with the tree of the
\* leading expression, leaves the cursor on the first unconsumed token and
\* reports no error for what is left.
C20_LeftoverTokensIgnored ==
    (Parsed /\ HasLeftover(InputTokens)) =>
        /\ parse.err = "none"
        /\ parse.current = LeadingEnd(InputTokens, 1)
        /\ parse.expr = parser_parse(LeadingTokens).expr
        /\ Flatten(parse.expr) = SubSeq(InputTokens, 1, parse.current)

\* NUMBER + NUMBER ) Eof parsed to the sum, the cursor left on the ')'
C20_Witness ==
    /\ Parsed
    /\ InputTokens = << Operand(1), Token("Plus"), Operand(1),
                        Token("RightParenthesis"), Token("Eof") >>
    /\ parse = Ok(Binary(Literal(Operand(1)), Token("Plus"),
                         Literal(Operand(1))), 3)

====
